---- MODULE Spec2Model ----
(***************************************************************************)
(* Model of ffda-oob-state-collector (src/ffda_oob_state_collector/        *)
(* __main__.py): a Twisted reactor that runs three kinds of callbacks      *)
(* against four Prometheus gauges (soc, charging, temperature,             *)
(* last_contact), each a dict from a label tuple (ip, host) to a value:    *)
(*   - StateReporterListener.datagramReceived, for every UDP datagram;     *)
(*   - StateCollectorMetrics.cleanup_expired, from a LoopingCall;          *)
(*   - the /metrics resource, for every HTTP scrape.                       *)
(* The reactor is single threaded (reactor.run(), line 108): a callback    *)
(* runs to its end before the next one starts.  The model keeps the        *)
(* callback's position in pc and gives one step to every write of a gauge, *)
(* so that the intermediate states exist and the reactor's exclusion       *)
(* (ReactorIdle) is what hides them.                                       *)
(***************************************************************************)
EXTENDS Integers, Sequences, FiniteSets, TLC

\* ------------------------------------------------------------------ bounds

\* The wall clock (time.time()) takes the values 0..MaxTime.
MaxTime == 3
\* statistics_timeout (the expiry horizon) is one of 1..MaxTimeout.
MaxTimeout == 2
\* Datagrams carry up to MaxExtra bytes after the six of a version-1 report.
MaxExtra == 1

\* A sweep every ten minutes, as the comment of line 98 has it.
SweepIntervalTenMinutes == 10 * 60

\* Line 100: l.start(30), the seconds between two calls of cleanup_expired.
SweepInterval == 30

\* The timed specification's clock stops here, after the third sweep.
TimedEnd == 2 * SweepInterval + MaxTimeout + 1

\* ------------------------------------------------------------------ inputs

\* The example report of the wire format: host 42, soc 80, charging, -10 C.
ExampleReport == <<1, 0, 42, 80, 1, 246>>
\* Same host, every other field different; byte 4 has its upper bits set.
OtherReport == <<1, 0, 42, 200, 254, 127>>
\* Another host (1*256 + 42), charging with reserved bits set, -128 C.
ThirdReport == <<1, 1, 42, 80, 3, 128>>

\* seq followed by n filler bytes.
Padded(seq, n) == seq \o [j \in 1..n |-> 9]

\* The first n bytes of seq (all of it when it is shorter).
Prefix(seq, n) == SubSeq(seq, 1, IF n < Len(seq) THEN n ELSE Len(seq))

\* seq with its first byte replaced by v.
WithVersion(seq, v) == IF seq = <<>> THEN seq ELSE <<v>> \o Tail(seq)

SenderA == <<"10.0.0.1", 1234>>
SenderA2 == <<"10.0.0.1", 40000>>
SenderB == <<"10.0.0.2", 1234>>

\* Every truncation and extension of the example report.
Truncations == {Prefix(Padded(ExampleReport, MaxExtra), n) : n \in 0..(6 + MaxExtra)}

OtherVersions == {0, 2}

\* The datagrams the network delivers: <<payload, (host, port)>>.
Inbound ==
    {<<d, SenderA>> : d \in Truncations}
    \cup {<<WithVersion(d, v), SenderA>> : d \in Truncations \ {<<>>}, v \in OtherVersions}
    \cup {<<OtherReport, SenderA>>, <<OtherReport, SenderA2>>,
          <<ExampleReport, SenderB>>, <<ThirdReport, SenderA>>,
          <<Prefix(ThirdReport, 5), SenderA>>}

\* Byte values for the decoder on its own: the corners of the unsigned and
\* of the two's-complement range, and the bytes of the example.
ByteSample == {0, 1, 42, 80, 127, 128, 246, 255}

\* Version-1 payloads of 5 to 6 + MaxExtra bytes over ByteSample.
WidePayloads ==
    {Prefix(Padded(<<1, b1, b2, b3, b4, b5>>, MaxExtra), n) :
        b1 \in {0, 1, 255}, b2 \in ByteSample, b3 \in {0, 80, 200, 255},
        b4 \in ByteSample, b5 \in ByteSample, n \in 5..(6 + MaxExtra)}

\* ------------------------------------------------------------------- state

VARIABLES
    soc, charging, temperature, last_contact, \* Gauge._metrics of the four gauges
    now,                 \* time.time()
    statistics_timeout,  \* StateCollector.statistics_timeout
    pc,                  \* position of the callback the reactor is running
    data, address,       \* datagramReceived: arguments
    host_id, soc_value, charging_value, temperature_value, last_contact_value,
    printed, raised,     \* datagramReceived: line printed, exception raised
    max_last_contact, to_remove, idx, labels, \* cleanup_expired: locals
    scraped,             \* the /metrics response being written
    accepted,            \* history: last report stored per key, until swept
    listening,           \* the UDP port of line 107 is open
    sent,                \* datagrams the listener has written to its transport
    next_call            \* LoopingCall: the time of its next call

gauges == <<soc, charging, temperature, last_contact>>
dgLocals == <<data, address, host_id, soc_value, charging_value,
              temperature_value, last_contact_value, printed, raised>>
sweepLocals == <<max_last_contact, to_remove, idx, labels>>
\* What no callback of the collector writes: the configuration, the open
\* port, the transport's output and the LoopingCall's schedule.
fixed == <<statistics_timeout, listening, sent, next_call>>
vars == <<soc, charging, temperature, last_contact, now, statistics_timeout, pc,
          data, address, host_id, soc_value, charging_value, temperature_value,
          last_contact_value, printed, raised, max_last_contact, to_remove, idx,
          labels, scraped, accepted, listening, sent, next_call>>

\* A dict with no entries.
EmptyDict == [k \in {} |-> 0]
NoAddress == <<"", 0>>
NoLabels == <<"", "">>
NoSnapshot == [soc |-> EmptyDict, charging |-> EmptyDict,
               temperature |-> EmptyDict, last_contact |-> EmptyDict]

\* ----------------------------------------------------------------- helpers

\* data[5:] for data[5:6]: the last field runs to the end of the datagram.
SliceToEnd(seq, lo, hi) ==
    SubSeq(seq, lo + 1, IF lo = 5 \/ hi >= Len(seq) THEN Len(seq) ELSE hi)

\* Python's data[lo:hi] on a bytes object: clipped to the object, never an error.
Slice(seq, lo, hi) == SubSeq(seq, lo + 1, IF hi < Len(seq) THEN hi ELSE Len(seq))

RECURSIVE UnsignedBigEndian(_)
UnsignedBigEndian(bytes) ==
    IF bytes = <<>> THEN 0
    ELSE UnsignedBigEndian(SubSeq(bytes, 1, Len(bytes) - 1)) * 256 + bytes[Len(bytes)]

RECURSIVE UnsignedLittleEndian(_)
UnsignedLittleEndian(bytes) ==
    IF bytes = <<>> THEN 0
    ELSE bytes[1] + 256 * UnsignedLittleEndian(Tail(bytes))

\* int.from_bytes with the byte order reversed and the sign bit not interpreted.
IntFromBytesLittleUnsigned(bytes, signed) == UnsignedLittleEndian(bytes)

\* int.from_bytes(bytes, 'big', signed=signed); the empty object gives 0.
IntFromBytes(bytes, signed) ==
    LET u == UnsignedBigEndian(bytes)
        n == Len(bytes)
    IN  IF signed /\ n > 0 /\ u >= 2 ^ (8 * n - 1) THEN u - 2 ^ (8 * n) ELSE u

\* data[i] read the way data[i:i+1] is: no byte there counts as 0.
IndexOrZero(seq, i) == IF i < Len(seq) THEN seq[i + 1] ELSE 0

\* Python's data[i] on a bytes object, for i >= 0: the byte, or IndexError
\* (here -1) when the object has no byte i.
Index(seq, i) == IF i < Len(seq) THEN seq[i + 1] ELSE -1

\* Python's a & b on non-negative integers.
RECURSIVE BitAnd(_, _)
BitAnd(a, b) ==
    IF a = 0 \/ b = 0 THEN 0
    ELSE (a % 2) * (b % 2) + 2 * BitAnd(a \div 2, b \div 2)

\* The label values in the wrong order.
LabelsOfSwapped(ip, host) == <<ToString(host), ip>>

\* A key that leaves the sender out.
LabelsOfHostOnly(ip, host) == <<"", ToString(host)>>

\* Gauge.labels(ip, host): the child's key is the tuple of str() of the values.
LabelsOf(ip, host) == <<ip, ToString(host)>>

\* A set that keeps the value of a child that already exists.
GaugeSetIfAbsent(metrics, key, value) ==
    IF key \in DOMAIN metrics THEN metrics
    ELSE [k \in DOMAIN metrics \cup {key} |-> IF k = key THEN value ELSE metrics[k]]

\* gauge.labels(*key).set(value): the child is created when missing.
GaugeSet(metrics, key, value) ==
    [k \in DOMAIN metrics \cup {key} |-> IF k = key THEN value ELSE metrics[k]]

\* Lines 28-30 with <= for <.
ExpiredLabelsInclusive(metrics, cutoff) ==
    {k \in DOMAIN metrics : metrics[k] <= cutoff}

\* Lines 28-30: the keys whose last contact is before the cutoff.
ExpiredLabels(metrics, cutoff) == {k \in DOMAIN metrics : metrics[k] < cutoff}

\* Every order in which a loop can meet the elements of S.  The dict is
\* iterated in insertion order; the model takes every order.
Orderings(S) ==
    {s \in [1..Cardinality(S) -> S] : \A a, b \in 1..Cardinality(S) : s[a] = s[b] => a = b}

\* No length test at all.
TooShortNever(d) == FALSE

\* Line 50: len(data) < 1.
TooShort(d) == Len(d) < 1

\* A version test that lets later versions through.
SupportedVersionOrLater(version) == version >= 1

\* Line 57: protocol_version == 1.
SupportedVersion(version) == version = 1

\* A removal that keeps the entry.
GaugeKeep(metrics, key) == metrics

\* gauge.remove(*key).
GaugeRemove(metrics, key) == [k \in DOMAIN metrics \ {key} |-> metrics[k]]

\* A reactor whose callbacks may start while another one is running.
ReactorShared == TRUE

\* reactor.run(): one callback at a time, each run to its end.
ReactorIdle == pc = "idle"

InDatagram == pc \in {"set_soc", "set_charging", "set_temperature",
                      "set_last_contact", "datagram_return"}
InCleanup == pc \in {"for_labels", "remove_soc", "remove_charging",
                     "remove_temperature", "remove_last_contact"}

\* -------------------------------------------------------------------- Init

Init ==
    /\ soc = EmptyDict /\ charging = EmptyDict
    /\ temperature = EmptyDict /\ last_contact = EmptyDict
    /\ now = 0
    /\ statistics_timeout \in 1..MaxTimeout
    /\ pc = "idle"
    /\ data = <<>> /\ address = NoAddress
    /\ host_id = 0 /\ soc_value = 0 /\ charging_value = 0
    /\ temperature_value = 0 /\ last_contact_value = 0
    /\ printed = "" /\ raised = ""
    /\ max_last_contact = 0 /\ to_remove = <<>> /\ idx = 0 /\ labels = NoLabels
    /\ scraped = NoSnapshot
    /\ accepted = EmptyDict
    /\ listening = TRUE
    /\ sent = <<>>
    /\ next_call = 0

\* ------------------------------------------------------------------- clock

\* time.time() moves on.  A callback reads the clock once (line 25, line 62),
\* in its first step here, so time that passes later in the callback has the
\* effect of time that passes right after it: the clock moves between
\* callbacks only.
Tick ==
    /\ pc = "idle" /\ now < MaxTime
    /\ now' = now + 1
    /\ UNCHANGED <<gauges, fixed, pc, dgLocals, sweepLocals, scraped, accepted>>

\* time.time() is the wall clock: it is set back when the system time is.
ClockSetBack ==
    /\ pc = "idle" /\ now > 0
    /\ now' = now - 1
    /\ UNCHANGED <<gauges, fixed, pc, dgLocals, sweepLocals, scraped, accepted>>

\* -------------------------------------------------------- datagramReceived

\* Lines 43-66: the length test, the version test and the decoding, none of
\* which touches the gauges.
DatagramReceived(d, a) ==
    /\ ReactorIdle
    /\ listening
    /\ data' = d /\ address' = a
    /\ IF TooShort(d)
       THEN /\ printed' = "Invalid data length"
            /\ pc' = "datagram_return"
            /\ UNCHANGED <<host_id, soc_value, charging_value, temperature_value,
                           last_contact_value, raised>>
       ELSE IF SupportedVersion(IntFromBytes(Slice(d, 0, 1), FALSE))
       THEN /\ host_id' = IntFromBytes(Slice(d, 1, 3), FALSE)
            /\ soc_value' = IntFromBytes(Slice(d, 3, 4), FALSE)
            /\ IF Index(d, 4) = -1
               THEN \* data[4] raises IndexError
                    /\ raised' = "IndexError"
                    /\ pc' = "datagram_return"
                    /\ UNCHANGED <<charging_value, temperature_value,
                                   last_contact_value, printed>>
               ELSE /\ charging_value' = BitAnd(Index(d, 4), 1)
                    /\ temperature_value' = IntFromBytes(Slice(d, 5, 6), TRUE)
                    /\ last_contact_value' = now
                    /\ printed' = "SOC"
                    /\ pc' = "set_soc"
                    /\ UNCHANGED raised
       ELSE /\ printed' = "Unsupported protocol version"
            /\ pc' = "datagram_return"
            /\ UNCHANGED <<host_id, soc_value, charging_value, temperature_value,
                           last_contact_value, raised>>
    /\ UNCHANGED <<gauges, now, fixed, sweepLocals, scraped, accepted>>

\* Line 69.
SetSoc ==
    /\ pc = "set_soc"
    /\ soc' = GaugeSet(soc, LabelsOf(address[1], host_id), soc_value)
    /\ pc' = "set_charging"
    /\ UNCHANGED <<charging, temperature, last_contact, now, fixed,
                   dgLocals, sweepLocals, scraped, accepted>>

\* Line 70.
SetCharging ==
    /\ pc = "set_charging"
    /\ charging' = GaugeSet(charging, LabelsOf(address[1], host_id), charging_value)
    /\ pc' = "set_temperature"
    /\ UNCHANGED <<soc, temperature, last_contact, now, fixed,
                   dgLocals, sweepLocals, scraped, accepted>>

\* Line 71.
SetTemperature ==
    /\ pc = "set_temperature"
    /\ temperature' = GaugeSet(temperature, LabelsOf(address[1], host_id), temperature_value)
    /\ pc' = "set_last_contact"
    /\ UNCHANGED <<soc, charging, last_contact, now, fixed,
                   dgLocals, sweepLocals, scraped, accepted>>

\* Line 72, the last write of the upsert.
SetLastContact ==
    /\ pc = "set_last_contact"
    /\ last_contact' = GaugeSet(last_contact, LabelsOf(address[1], host_id), last_contact_value)
    /\ accepted' = GaugeSet(accepted, LabelsOf(address[1], host_id),
                            [soc |-> soc_value, charging |-> charging_value,
                             temperature |-> temperature_value,
                             last_contact |-> last_contact_value,
                             data |-> data, address |-> address])
    /\ pc' = "datagram_return"
    /\ UNCHANGED <<soc, charging, temperature, now, fixed,
                   dgLocals, sweepLocals, scraped>>

\* A port that closes when its protocol raises.
DatagramReturnStopsOnError ==
    /\ pc = "datagram_return"
    /\ pc' = "idle"
    /\ data' = <<>> /\ address' = NoAddress
    /\ host_id' = 0 /\ soc_value' = 0 /\ charging_value' = 0
    /\ temperature_value' = 0 /\ last_contact_value' = 0
    /\ printed' = "" /\ raised' = ""
    /\ listening' = (raised = "")
    /\ UNCHANGED <<gauges, now, statistics_timeout, sent, next_call, sweepLocals,
                   scraped, accepted>>

\* The callback ends (by return, by falling off its end or by the exception
\* the reactor logs) and its locals are gone.
DatagramReturn ==
    /\ pc = "datagram_return"
    /\ pc' = "idle"
    /\ data' = <<>> /\ address' = NoAddress
    /\ host_id' = 0 /\ soc_value' = 0 /\ charging_value' = 0
    /\ temperature_value' = 0 /\ last_contact_value' = 0
    /\ printed' = "" /\ raised' = ""
    /\ UNCHANGED <<gauges, now, fixed, sweepLocals, scraped, accepted>>

\* --------------------------------------------------------- cleanup_expired

\* Lines 22-30: the cutoff and the first pass.
CleanupExpiredBegins ==
    /\ ReactorIdle
    /\ max_last_contact' = now - statistics_timeout
    /\ to_remove' \in Orderings(ExpiredLabels(last_contact, now - statistics_timeout))
    /\ idx' = 0
    /\ pc' = "for_labels"
    /\ UNCHANGED <<gauges, now, statistics_timeout, listening, sent, dgLocals,
                   labels, scraped, accepted>>

\* Lines 22-30, called by the LoopingCall of lines 99-100 at some time.
CleanupExpired == CleanupExpiredBegins /\ UNCHANGED next_call

\* Lines 99-100 with the time of the calls: the first call at once, the
\* next ones SweepInterval seconds after the one before.
LoopingCallFires ==
    /\ now = next_call
    /\ CleanupExpiredBegins
    /\ next_call' = next_call + SweepInterval

\* One second passes, and no call of the LoopingCall is overdue.
TimedTick ==
    /\ pc = "idle" /\ now < next_call /\ now < TimedEnd
    /\ now' = now + 1
    /\ UNCHANGED <<gauges, fixed, pc, dgLocals, sweepLocals, scraped, accepted>>

\* A loop that takes the same element again and again.
ForLabelsStuck ==
    /\ pc = "for_labels"
    /\ IF idx < Len(to_remove)
       THEN /\ labels' = to_remove[idx + 1]
            /\ pc' = "remove_soc"
            /\ UNCHANGED <<max_last_contact, to_remove, idx>>
       ELSE /\ pc' = "idle"
            /\ max_last_contact' = 0 /\ to_remove' = <<>> /\ idx' = 0
            /\ labels' = NoLabels
    /\ UNCHANGED <<gauges, now, fixed, dgLocals, scraped, accepted>>

\* Line 32: the next element of to_remove, or the end of the call.
ForLabels ==
    /\ pc = "for_labels"
    /\ IF idx < Len(to_remove)
       THEN /\ labels' = to_remove[idx + 1]
            /\ idx' = idx + 1
            /\ pc' = "remove_soc"
            /\ UNCHANGED <<max_last_contact, to_remove>>
       ELSE /\ pc' = "idle"
            /\ max_last_contact' = 0 /\ to_remove' = <<>> /\ idx' = 0
            /\ labels' = NoLabels
    /\ UNCHANGED <<gauges, now, fixed, dgLocals, scraped, accepted>>

\* Line 33.
RemoveSoc ==
    /\ pc = "remove_soc"
    /\ soc' = GaugeRemove(soc, labels)
    /\ pc' = "remove_charging"
    /\ UNCHANGED <<charging, temperature, last_contact, now, fixed,
                   dgLocals, sweepLocals, scraped, accepted>>

\* Line 34.
RemoveCharging ==
    /\ pc = "remove_charging"
    /\ charging' = GaugeRemove(charging, labels)
    /\ pc' = "remove_temperature"
    /\ UNCHANGED <<soc, temperature, last_contact, now, fixed,
                   dgLocals, sweepLocals, scraped, accepted>>

\* Line 35 left out.
RemoveTemperatureSkipped ==
    /\ pc = "remove_temperature"
    /\ pc' = "remove_last_contact"
    /\ UNCHANGED <<gauges, now, fixed, dgLocals, sweepLocals, scraped, accepted>>

\* Line 35.
RemoveTemperature ==
    /\ pc = "remove_temperature"
    /\ temperature' = GaugeRemove(temperature, labels)
    /\ pc' = "remove_last_contact"
    /\ UNCHANGED <<soc, charging, last_contact, now, fixed,
                   dgLocals, sweepLocals, scraped, accepted>>

\* Line 36 left out.
RemoveLastContactSkipped ==
    /\ pc = "remove_last_contact"
    /\ pc' = "for_labels"
    /\ UNCHANGED <<gauges, now, fixed, dgLocals, sweepLocals, scraped, accepted>>

\* Line 36, the last removal for this key.
RemoveLastContact ==
    /\ pc = "remove_last_contact"
    /\ last_contact' = GaugeRemove(last_contact, labels)
    /\ accepted' = GaugeRemove(accepted, labels)
    /\ pc' = "for_labels"
    /\ UNCHANGED <<soc, charging, temperature, now, fixed,
                   dgLocals, sweepLocals, scraped>>

\* ------------------------------------------------------------------ scrape

\* A scrape that empties what it has read.
ScrapeAndReset ==
    /\ ReactorIdle
    /\ scraped' = [soc |-> soc, charging |-> charging,
                   temperature |-> temperature, last_contact |-> last_contact]
    /\ soc' = EmptyDict /\ charging' = EmptyDict
    /\ temperature' = EmptyDict /\ last_contact' = EmptyDict
    /\ pc' = "scrape_respond"
    /\ UNCHANGED <<now, fixed, dgLocals, sweepLocals, accepted>>

\* GET /metrics (lines 95-96, 103-104): the resource reads the four gauges.
Scrape ==
    /\ ReactorIdle
    /\ scraped' = [soc |-> soc, charging |-> charging,
                   temperature |-> temperature, last_contact |-> last_contact]
    /\ pc' = "scrape_respond"
    /\ UNCHANGED <<gauges, now, fixed, dgLocals, sweepLocals, accepted>>

\* The response is written and the request is over.
ScrapeRespond ==
    /\ pc = "scrape_respond"
    /\ scraped' = NoSnapshot
    /\ pc' = "idle"
    /\ UNCHANGED <<gauges, now, fixed, dgLocals, sweepLocals, accepted>>

\* ---------------------------------------------------------- specifications

Receive == ReactorIdle /\ \E m \in Inbound : DatagramReceived(m[1], m[2])

Next ==
    \/ Tick
    \/ ClockSetBack
    \/ Receive
    \/ SetSoc
    \/ SetCharging
    \/ SetTemperature
    \/ SetLastContact
    \/ DatagramReturn
    \/ CleanupExpired
    \/ ForLabels
    \/ RemoveSoc
    \/ RemoveCharging
    \/ RemoveTemperature
    \/ RemoveLastContact
    \/ Scrape
    \/ ScrapeRespond

Spec == Init /\ [][Next]_vars

\* The decoder on its own: a collector with no entry yet receives one
\* version-1 datagram from the wide payload set and stores it.
ReceiveFirst ==
    /\ ReactorIdle
    /\ last_contact = EmptyDict
    /\ \E d \in WidePayloads, a \in {SenderA, SenderB} : DatagramReceived(d, a)

NextDecode ==
    \/ ReceiveFirst
    \/ SetSoc
    \/ SetCharging
    \/ SetTemperature
    \/ SetLastContact
    \/ DatagramReturn

SpecDecode == Init /\ [][NextDecode]_vars

\* The collector with its clock in seconds and the sweep on its schedule:
\* one device, 10.0.0.1 host 42, reports at any time.
TimedInbound == {<<ExampleReport, SenderA>>, <<OtherReport, SenderA>>}

ReceiveTimed == ReactorIdle /\ \E m \in TimedInbound : DatagramReceived(m[1], m[2])

NextTimed ==
    \/ TimedTick
    \/ LoopingCallFires
    \/ ReceiveTimed
    \/ SetSoc
    \/ SetCharging
    \/ SetTemperature
    \/ SetLastContact
    \/ DatagramReturn
    \/ ForLabels
    \/ RemoveSoc
    \/ RemoveCharging
    \/ RemoveTemperature
    \/ RemoveLastContact

SpecTimed == Init /\ [][NextTimed]_vars

\* ------------------------------------------------------------------ claims

\* The elements of a sequence.
Range(seq) == {seq[j] : j \in 1..Len(seq)}

AllKeys == DOMAIN soc \cup DOMAIN charging \cup DOMAIN temperature \cup DOMAIN last_contact

\* A step that hands a datagram to datagramReceived.
DatagramArrives ==
    /\ pc = "idle"
    /\ pc' \in {"set_soc", "set_charging", "set_temperature",
                "set_last_contact", "datagram_return"}

\* The step on which cleanup_expired returns.
SweepCompletes == pc = "for_labels" /\ pc' = "idle"

\* Key k is in gauge m before the step exactly when it is after it, with the
\* same value.
Untouched(m, mNext, k) ==
    /\ (k \in DOMAIN m) = (k \in DOMAIN mNext)
    /\ k \in DOMAIN m => mNext[k] = m[k]

\* The byte b read as a two's-complement signed 8-bit number.
Signed8(b) == IF b >= 128 THEN b - 256 ELSE b

\* C1: while datagramReceived handles a version-1 datagram of 1 to 5 bytes,
\* no entry of the four gauges is created or modified.
C1_ShortVersion1Rejected ==
    [][(InDatagram /\ Len(data) \in 1..5 /\ data[1] = 1) => gauges' = gauges]_vars

\* C2: a sweep collects exactly the keys whose last contact is before
\* now - statistics_timeout; when it returns, none of them is left in any
\* of the four gauges; every other key stays in each gauge, with its value,
\* through every step of the sweep.
C2_SweepRemovesExpiredKeepsFresh ==
    [][/\ (pc = "idle" /\ pc' = "for_labels") =>
            /\ Range(to_remove') =
                   {k \in DOMAIN last_contact : last_contact[k] < now - statistics_timeout}
            /\ Len(to_remove') = Cardinality(Range(to_remove'))
       /\ SweepCompletes => \A k \in Range(to_remove) : k \notin AllKeys'
       /\ InCleanup =>
            \A k \in AllKeys \ Range(to_remove) :
                /\ Untouched(soc, soc', k)
                /\ Untouched(charging, charging', k)
                /\ Untouched(temperature, temperature', k)
                /\ Untouched(last_contact, last_contact', k)]_vars

\* C2 witness: a sweep is about to return after removing one key and keeping
\* another whose last contact is within the horizon.
C2_Witness ==
    /\ pc = "for_labels" /\ idx = Len(to_remove) /\ idx >= 1
    /\ to_remove[1] \notin AllKeys
    /\ \E k \in DOMAIN last_contact :
          k \in DOMAIN soc /\ last_contact[k] >= max_last_contact

C4_LastWriteWins ==
    [][/\ (/\ pc = "set_last_contact" /\ pc' = "datagram_return"
           /\ Len(data) >= 6
           /\ <<address[1], ToString(data[2] * 256 + data[3])>> \in DOMAIN last_contact)
          => LET k == <<address[1], ToString(data[2] * 256 + data[3])>>
             IN  /\ k \in DOMAIN soc' /\ soc'[k] = data[4]
                 /\ k \in DOMAIN charging' /\ charging'[k] = data[5] % 2
                 /\ k \in DOMAIN temperature' /\ temperature'[k] = Signed8(data[6])
                 /\ k \in DOMAIN last_contact' /\ last_contact'[k] = now
       /\ (pc = "idle" /\ pc' = "scrape_respond")
          => /\ scraped'.soc = soc /\ scraped'.charging = charging
             /\ scraped'.temperature = temperature
             /\ scraped'.last_contact = last_contact]_vars

\* C4 witness: a report is being stored over an earlier one for the same
\* key that differs from it in soc, charging and temperature and whose last
\* contact is later than the time of receipt of the new one.
C4_Witness ==
    /\ pc = "set_soc" /\ Len(data) >= 6
    /\ LabelsOf(address[1], host_id) \in DOMAIN last_contact
    /\ last_contact[LabelsOf(address[1], host_id)] > last_contact_value
    /\ soc[LabelsOf(address[1], host_id)] # soc_value
    /\ charging[LabelsOf(address[1], host_id)] # charging_value
    /\ temperature[LabelsOf(address[1], host_id)] # temperature_value

\* C5: a datagram of at least one byte whose first byte is not 1 makes
\* datagramReceived print "Unsupported protocol version" and return, with
\* no exception, and no step of its handling changes a gauge.
C5_UnsupportedVersionDropped ==
    [][/\ (DatagramArrives /\ Len(data') >= 1 /\ data'[1] # 1)
          => /\ pc' = "datagram_return"
             /\ printed' = "Unsupported protocol version"
             /\ raised' = ""
       /\ (InDatagram /\ Len(data) >= 1 /\ data[1] # 1)
          => pc' = "idle" /\ gauges' = gauges]_vars

\* C5 witness: a one-byte datagram of another version has been refused by a
\* collector that holds entries.
C5_Witness ==
    /\ pc = "datagram_return" /\ Len(data) = 1 /\ data[1] # 1
    /\ printed = "Unsupported protocol version"
    /\ DOMAIN last_contact # {}

\* C6: an empty datagram makes datagramReceived print "Invalid data length"
\* and return, and no step of its handling changes a gauge.
C6_EmptyDatagramDropped ==
    [][/\ (DatagramArrives /\ Len(data') = 0)
          => /\ pc' = "datagram_return"
             /\ printed' = "Invalid data length"
             /\ raised' = ""
       /\ (InDatagram /\ Len(data) = 0)
          => pc' = "idle" /\ gauges' = gauges]_vars

\* C6 witness: an empty datagram has been refused by a collector that holds
\* entries.
C6_Witness ==
    /\ pc = "datagram_return" /\ data = <<>>
    /\ printed = "Invalid data length"
    /\ DOMAIN last_contact # {}

\* C7: for a 6-byte version-1 payload b0..b5 from any sender, the decoded
\* host is b1*256 + b2, the soc is b3 (0..255), charging is bit 0 of b4 and
\* the temperature is b5 as a signed 8-bit number (-128..127); the example
\* payload gives host 42, soc 80, charging 1, temperature -10.
C7_DecodedFields ==
    (InDatagram /\ Len(data) = 6 /\ data[1] = 1) =>
        /\ host_id = data[2] * 256 + data[3]
        /\ soc_value = data[4] /\ soc_value \in 0..255
        /\ charging_value \in {0, 1} /\ (data[5] - charging_value) % 2 = 0
        /\ temperature_value \in -128..127
        /\ (temperature_value - data[6]) % 256 = 0
        /\ data = ExampleReport =>
              /\ host_id = 42 /\ soc_value = 80
              /\ charging_value = 1 /\ temperature_value = -10

\* C7 witness: a 6-byte payload with a two-byte host identifier, reserved
\* bits set in byte 4 and a negative temperature has been decoded.
C7_Witness ==
    /\ pc = "set_soc" /\ Len(data) = 6
    /\ data[2] = 255 /\ data[3] = 246 /\ data[5] = 246 /\ data[6] = 128
    /\ host_id = 65526 /\ charging_value = 0 /\ temperature_value = -128

\* What the four gauges hold when every stored report is whole.
Projection(reports) ==
    [soc |-> [k \in DOMAIN reports |-> reports[k].soc],
     charging |-> [k \in DOMAIN reports |-> reports[k].charging],
     temperature |-> [k \in DOMAIN reports |-> reports[k].temperature],
     last_contact |-> [k \in DOMAIN reports |-> reports[k].last_contact]]

C9_SecondSweepRemovesNothing ==
    [][SweepCompletes =>
          /\ now' - statistics_timeout' = max_last_contact
          /\ ExpiredLabels(last_contact', now' - statistics_timeout') = {}
          /\ Orderings(ExpiredLabels(last_contact', now' - statistics_timeout')) = {<<>>}]_vars

\* C9 witness: a sweep that removed two keys is about to return.
C9_Witness ==
    /\ pc = "for_labels" /\ idx = Len(to_remove) /\ idx = 2
    /\ DOMAIN last_contact # {}

\* C10 as stated: when a sweep returns, every key left has its last contact
\* strictly after the cutoff.
C10_SurvivorsStrictlyAfterCutoff ==
    [][SweepCompletes =>
          \A k \in DOMAIN last_contact' : last_contact'[k] > max_last_contact]_vars

\* C10 amended: when a sweep returns, every key left in any of the four
\* gauges has a last contact at or after the cutoff; the keys collected as
\* expired are in none of the gauges.
C10_SurvivorsAtOrAfterCutoff ==
    [][SweepCompletes =>
          /\ \A k \in AllKeys' :
                k \in DOMAIN last_contact' /\ last_contact'[k] >= max_last_contact
          /\ \A k \in Range(to_remove) : k \notin AllKeys']_vars

\* C10 witness: a sweep that removed a key is about to return and leaves a
\* key whose last contact equals the cutoff.
C10_Witness ==
    /\ pc = "for_labels" /\ idx = Len(to_remove) /\ idx >= 1
    /\ \E k \in DOMAIN last_contact : last_contact[k] = max_last_contact

\* The step on which a scrape reads the gauges.
ScrapeReads == pc = "idle" /\ pc' = "scrape_respond"

\* C11: a scrape exposes, for every 6-byte version-1 datagram b0..b5 from
\* sender s that was stored last for its key and not swept since, a data
\* point labelled ip = s, host = str(b1*256 + b2) in each of the four
\* metrics, with soc b3, charging bit 0 of b4 (0 or 1), temperature b5
\* signed and the time of receipt; the example payload is exposed with
\* host "42", soc 80, charging 1, temperature -10.
C11_ScrapeExposesDecodedReport ==
    [][ScrapeReads =>
          \A k \in DOMAIN accepted :
              LET d == accepted[k].data
                  s == accepted[k].address[1]
                  key == <<s, ToString(d[2] * 256 + d[3])>>
              IN  Len(d) = 6 =>
                    /\ k = key
                    /\ key \in DOMAIN scraped'.soc /\ scraped'.soc[key] = d[4]
                    /\ key \in DOMAIN scraped'.charging
                    /\ scraped'.charging[key] \in {0, 1}
                    /\ (d[5] - scraped'.charging[key]) % 2 = 0
                    /\ key \in DOMAIN scraped'.temperature
                    /\ scraped'.temperature[key] = Signed8(d[6])
                    /\ key \in DOMAIN scraped'.last_contact
                    /\ scraped'.last_contact[key] = accepted[k].last_contact
                    /\ d = ExampleReport =>
                          /\ key[2] = "42" /\ scraped'.soc[key] = 80
                          /\ scraped'.charging[key] = 1
                          /\ scraped'.temperature[key] = -10]_vars

\* C11 witness: a scrape response that holds the example report from
\* 10.0.0.2 and another 6-byte report from 10.0.0.1.
C11_Witness ==
    /\ pc = "scrape_respond"
    /\ <<"10.0.0.2", "42">> \in DOMAIN scraped.soc
    /\ scraped.temperature[<<"10.0.0.2", "42">>] = -10
    /\ <<"10.0.0.1", "298">> \in DOMAIN scraped.soc
    /\ accepted[<<"10.0.0.1", "298">>].data = ThirdReport

\* C12: while a datagram from sender s with host bytes b1, b2 is stored,
\* the only key of the four gauges that is created or whose value changes
\* is (s, str(b1*256 + b2)); when it is stored that key is in all four
\* gauges; every entry holds a report of the sender and the host of its own
\* key, so reports that differ in the sender or in the host are in
\* different entries.
C12_KeyedBySenderAndHost ==
    [][InDatagram /\ pc # "datagram_return" =>
          LET key == <<address[1], ToString(data[2] * 256 + data[3])>>
          IN  /\ \A k \in (AllKeys \cup AllKeys') \ {key} :
                    /\ Untouched(soc, soc', k)
                    /\ Untouched(charging, charging', k)
                    /\ Untouched(temperature, temperature', k)
                    /\ Untouched(last_contact, last_contact', k)
              /\ pc' = "datagram_return" =>
                    /\ key \in DOMAIN soc' /\ key \in DOMAIN charging'
                    /\ key \in DOMAIN temperature' /\ key \in DOMAIN last_contact'
              /\ pc' = "datagram_return" =>
                    \A k \in DOMAIN accepted' :
                        k = <<accepted'[k].address[1],
                              ToString(accepted'[k].data[2] * 256 + accepted'[k].data[3])>>]_vars

\* C12 witness: a report for host 42 from 10.0.0.1 has been stored while the
\* table holds host 42 from 10.0.0.2 and host 298 from 10.0.0.1, with values
\* that differ from the ones stored.
C12_Witness ==
    /\ pc = "datagram_return" /\ printed = "SOC"
    /\ address[1] = "10.0.0.1" /\ host_id = 42 /\ soc_value = 200
    /\ DOMAIN last_contact = {<<"10.0.0.1", "42">>, <<"10.0.0.2", "42">>,
                              <<"10.0.0.1", "298">>}
    /\ soc[<<"10.0.0.2", "42">>] = 80

DecodeFailed ==
    /\ pc = "datagram_return"
    /\ \/ printed \in {"Invalid data length", "Unsupported protocol version"}
       \/ raised = "IndexError"

\* C14: a call of datagramReceived that ends without a stored report (empty
\* datagram, unsupported version, IndexError on a truncated one) leaves the
\* port open, writes nothing to the transport and returns the reactor to
\* idle with the gauges as they were; between callbacks the port is open,
\* nothing was ever sent, no local of an earlier call is left, and every
\* datagram of the network can be handed to datagramReceived.
C14_ListenerSurvivesBadDatagram ==
    /\ [][DecodeFailed =>
             /\ pc' = "idle" /\ listening' /\ sent' = sent
             /\ gauges' = gauges /\ accepted' = accepted]_vars
    /\ [](sent = <<>>)
    /\ [](pc = "idle" =>
             /\ listening
             /\ data = <<>> /\ address = NoAddress /\ host_id = 0
             /\ soc_value = 0 /\ charging_value = 0 /\ temperature_value = 0
             /\ last_contact_value = 0 /\ printed = "" /\ raised = ""
             /\ \A m \in Inbound : ENABLED DatagramReceived(m[1], m[2]))

\* C14 witness: datagramReceived has raised IndexError on a 4-byte version-1
\* datagram in a collector that holds entries and whose port is open.
C14_Witness ==
    /\ pc = "datagram_return" /\ raised = "IndexError" /\ Len(data) = 4
    /\ listening /\ DOMAIN last_contact # {}

\* Key k is in gauge m before the step and not after it.
Leaves(m, mNext, k) == k \in DOMAIN m /\ k \notin DOMAIN mNext

\* C15: a key comes into the table only on a step of datagramReceived that
\* stores a valid report (version 1, at least 6 bytes) for that key; a key
\* leaves a gauge only on a step of cleanup_expired for that key, collected
\* with its last contact below the cutoff; no step of datagramReceived and
\* no scrape removes a key.
C15_Lifecycle ==
    [][\A k \in AllKeys \cup AllKeys' :
          /\ (k \notin AllKeys /\ k \in AllKeys') =>
                /\ InDatagram
                /\ Len(data) >= 6 /\ data[1] = 1
                /\ k = <<address[1], ToString(data[2] * 256 + data[3])>>
          /\ (\/ Leaves(soc, soc', k) \/ Leaves(charging, charging', k)
              \/ Leaves(temperature, temperature', k)
              \/ Leaves(last_contact, last_contact', k)) =>
                /\ InCleanup /\ k = labels /\ k \in Range(to_remove)
                /\ k \in DOMAIN last_contact
                /\ last_contact[k] < max_last_contact]_vars

\* C16: the two steps of a scrape leave the four gauges, the clock and the
\* horizon as they are, and with them the set of keys a sweep would collect.
C16_ScrapeReadOnly ==
    [][(ScrapeReads \/ pc = "scrape_respond") =>
          /\ gauges' = gauges /\ accepted' = accepted
          /\ now' = now /\ statistics_timeout' = statistics_timeout
          /\ ExpiredLabels(last_contact', now' - statistics_timeout')
                 = ExpiredLabels(last_contact, now - statistics_timeout)]_vars

\* C16 witness: a scrape has read a table of two keys, one of which the
\* next sweep would remove and one of which it would keep.
C16_Witness ==
    /\ pc = "scrape_respond"
    /\ Cardinality(DOMAIN scraped.last_contact) = 2
    /\ Cardinality(ExpiredLabels(last_contact, now - statistics_timeout)) = 1

\* The steps the running callback still has to take, at most.
StepsLeft ==
    CASE pc = "idle" -> 0
      [] pc = "set_soc" -> 5
      [] pc = "set_charging" -> 4
      [] pc = "set_temperature" -> 3
      [] pc = "set_last_contact" -> 2
      [] pc = "datagram_return" -> 1
      [] pc = "scrape_respond" -> 1
      [] pc = "for_labels" -> 5 * (Len(to_remove) - idx) + 1
      [] pc = "remove_soc" -> 5 * (Len(to_remove) - idx) + 5
      [] pc = "remove_charging" -> 5 * (Len(to_remove) - idx) + 4
      [] pc = "remove_temperature" -> 5 * (Len(to_remove) - idx) + 3
      [] pc = "remove_last_contact" -> 5 * (Len(to_remove) - idx) + 2

\* The next step of the running callback.
CallbackStep ==
    \/ SetSoc \/ SetCharging \/ SetTemperature \/ SetLastContact \/ DatagramReturn
    \/ ForLabels \/ RemoveSoc \/ RemoveCharging \/ RemoveTemperature
    \/ RemoveLastContact \/ ScrapeRespond

\* C17: between callbacks the reactor can start each of the three (a
\* datagram, a sweep, a scrape); inside a callback its next step can be
\* taken, and every step of a callback brings it closer to its end by a
\* bounded count, so every upsert, sweep and scrape that has started ends.
C17_NoDeadlockCallbacksEnd ==
    /\ [](pc = "idle" =>
             /\ ENABLED Receive /\ ENABLED CleanupExpired /\ ENABLED Scrape)
    /\ [](pc # "idle" => ENABLED CallbackStep)
    /\ [](StepsLeft >= 0 /\ (StepsLeft = 0 <=> pc = "idle"))
    /\ [][pc # "idle" => StepsLeft' < StepsLeft]_vars

\* C17 witness: a sweep in the middle of removing the first of three keys.
C17_Witness ==
    /\ pc = "remove_temperature" /\ Len(to_remove) = 3 /\ idx = 1

\* C18: a sweep, once it has computed its cutoff, runs to its end with no
\* step of datagramReceived or of a scrape in between; every removal it
\* makes is of a key whose last contact, read at that step, is below the
\* cutoff, which is the clock minus the horizon: more than the horizon has
\* passed on the collector's clock since the key's last report.
C18_SweepNotInterleaved ==
    [][InCleanup =>
          /\ pc' \in {"idle", "for_labels", "remove_soc", "remove_charging",
                      "remove_temperature", "remove_last_contact"}
          /\ data' = <<>> /\ scraped' = NoSnapshot
          /\ max_last_contact = now - statistics_timeout
          /\ pc # "for_labels" =>
                /\ labels \in DOMAIN last_contact
                /\ last_contact[labels] < max_last_contact
                /\ now - last_contact[labels] > statistics_timeout
                /\ accepted[labels].last_contact = last_contact[labels]]_vars

\* C18 witness: a sweep removes a key while the table holds another key
\* whose last contact is at the cutoff.
C18_Witness ==
    /\ pc = "remove_last_contact"
    /\ \E k \in DOMAIN last_contact : k # labels /\ last_contact[k] = max_last_contact

\* C19: a version-1 datagram of 1 to 4 bytes makes datagramReceived raise
\* IndexError at data[4], with nothing printed and no gauge written yet; the
\* call then ends and no step of it changes a gauge, so no entry is left
\* partly written.
C19_TruncatedFailsBeforeAnyWrite ==
    [][/\ (DatagramArrives /\ Len(data') \in 1..4 /\ data'[1] = 1)
          => /\ pc' = "datagram_return"
             /\ raised' = "IndexError" /\ printed' = ""
             /\ gauges' = gauges
       /\ (InDatagram /\ Len(data) \in 1..4 /\ data[1] = 1)
          => /\ pc' = "idle"
             /\ gauges' = gauges /\ accepted' = accepted]_vars

\* C19 witness: IndexError on the one-byte datagram 01 in a collector that
\* holds entries.
C19_Witness ==
    /\ pc = "datagram_return" /\ data = <<1>> /\ raised = "IndexError"
    /\ DOMAIN soc # {}

\* Lines 58-61 on payload d, for a d of at least 5 bytes.
Decoded(d) ==
    [host_id |-> IntFromBytes(Slice(d, 1, 3), FALSE),
     soc_value |-> IntFromBytes(Slice(d, 3, 4), FALSE),
     charging_value |-> BitAnd(Index(d, 4), 1),
     temperature_value |-> IntFromBytes(Slice(d, 5, 6), TRUE)]

\* C20: a version-1 datagram of more than 6 bytes is accepted, and the host,
\* soc, charging and temperature decoded from it, and the key and values
\* stored, are the ones its first 6 bytes alone give.
C20_TrailingBytesIgnored ==
    (InDatagram /\ Len(data) > 6 /\ data[1] = 1) =>
        LET first6 == SubSeq(data, 1, 6)
            key == <<address[1], ToString(Decoded(first6).host_id)>>
        IN  /\ raised = "" /\ printed = "SOC"
            /\ host_id = Decoded(first6).host_id
            /\ host_id = data[2] * 256 + data[3]
            /\ soc_value = Decoded(first6).soc_value
            /\ charging_value = Decoded(first6).charging_value
            /\ temperature_value = Decoded(first6).temperature_value
            /\ temperature_value = Signed8(data[6])
            /\ pc = "datagram_return" =>
                  /\ AllKeys = {key}
                  /\ soc[key] = Decoded(first6).soc_value
                  /\ charging[key] = Decoded(first6).charging_value
                  /\ temperature[key] = Decoded(first6).temperature_value

\* C20 witness: a 7-byte datagram with a negative temperature in byte 5 has
\* been stored.
C20_Witness ==
    /\ pc = "datagram_return" /\ Len(data) = 7 /\ data[6] = 246
    /\ temperature = (<<address[1], ToString(host_id)>> :> -10)

====
